---- MODULE Spec2Model ----
(***************************************************************************)
(* A model of the time_duration_api crate: time_utils::Time and            *)
(* time_utils::CustomDuration (src/src/lib.rs) and the demonstration       *)
(* program (src/src/main.rs).                                              *)
(*                                                                         *)
(* Strings are sequences of one-character strings.  Seconds counts are     *)
(* 64-bit in the program; they are written here as k * 2^63 + o (a record  *)
(* [k, o] with a small o), which is exact for every value the model        *)
(* builds and keeps the places where i64 / u64 arithmetic overflows.       *)
(***************************************************************************)
EXTENDS Integers, Sequences, FiniteSets, TLC

VARIABLES
    t,        \* the Time value under test: None, or [secs, nanos, cache]
    ret,      \* what the last operation returned (or the panic that ended it)
    op,       \* the last operation and its arguments
    origin,   \* the operation that made t
    derived,  \* how many times t was rebound to a returned Time
    pc,       \* main: the next statement of main.rs
    now,      \* main: `now`
    future_time,   \* main: `future_time`
    past_time,     \* main: `past_time`
    time_from_str, \* main: `time_from_str`
    stdout,   \* main: the lines printed so far
    exit      \* main: the process exit status, None while running

vars == <<t, ret, op, origin, derived, pc, now, future_time, past_time, time_from_str,
          stdout, exit>>

apiVars == <<t, ret, op, origin, derived>>
mainVars == <<pc, now, future_time, past_time, time_from_str, stdout, exit>>

None == [kind |-> "None"]

\* the element of a one-element set: Only({e(x) : x \in {v}}) is e(v), with v worked
\* out once
Only(S) == CHOOSE v \in S : TRUE

(***************************************************************************)
(* Bounds of the model.                                                    *)
(***************************************************************************)
\* how many times the harness rebinds t to a Time an operation returned
MaxDerived == 1

(***************************************************************************)
(* 64-bit seconds: the number k * 2^63 + o.                                *)
(***************************************************************************)
Big(k, o) == [k |-> k, o |-> o]
Small(n) == Big(0, n)
BAdd(a, b) == Big(a.k + b.k, a.o + b.o)
BSub(a, b) == Big(a.k - b.k, a.o - b.o)
BLt(a, b) == a.k < b.k \/ (a.k = b.k /\ a.o < b.o)
BLe(a, b) == a = b \/ BLt(a, b)
BZero == Small(0)
I64Max == Big(1, -1)
I64Min == Big(-1, 0)
U64Max == Big(2, -1)
InI64(a) == BLe(I64Min, a) /\ BLe(a, I64Max)
InU64(a) == BLe(BZero, a) /\ BLe(a, U64Max)

NanosPerSec == 1000000000
NanosPerMilli == 1000000
MillisPerSec == 1000

(***************************************************************************)
(* Characters and decimal numbers.                                         *)
(***************************************************************************)
DigitChars == <<"0", "1", "2", "3", "4", "5", "6", "7", "8", "9">>
IsDigit(c) == \E i \in 1..10 : DigitChars[i] = c
DigitVal(c) == (CHOOSE i \in 1..10 : DigitChars[i] = c) - 1
IsSpace(c) == c = " "

Drop(s, n) == IF n >= Len(s) THEN <<>> ELSE SubSeq(s, n + 1, Len(s))
Take(s, n) == IF n >= Len(s) THEN s ELSE SubSeq(s, 1, n)

RECURSIVE TrimStart(_)
TrimStart(s) == IF s # <<>> /\ IsSpace(Head(s)) THEN TrimStart(Tail(s)) ELSE s

RECURSIVE DigitRun(_, _)
\* the number of leading digits of s, at most max
DigitRun(s, max) ==
    IF max = 0 \/ s = <<>> \/ ~IsDigit(Head(s)) THEN 0
    ELSE 1 + DigitRun(Tail(s), max - 1)

RECURSIVE DecValue(_)
DecValue(ds) ==
    IF ds = <<>> THEN 0 ELSE DecValue(Take(ds, Len(ds) - 1)) * 10 + DigitVal(ds[Len(ds)])

RECURSIVE Pow10(_)
Pow10(n) == IF n = 0 THEN 1 ELSE 10 * Pow10(n - 1)

RECURSIVE Decimal(_)
\* n >= 0 written in decimal
Decimal(n) == IF n < 10 THEN <<DigitChars[n + 1]>> ELSE Decimal(n \div 10) \o <<DigitChars[(n % 10) + 1]>>

RECURSIVE PadNum(_, _)
\* n >= 0 written in decimal, zero-padded to at least w digits
PadNum(n, w) ==
    IF n < 10 /\ w <= 1 THEN <<DigitChars[n + 1]>>
    ELSE PadNum(n \div 10, w - 1) \o <<DigitChars[(n % 10) + 1]>>

(***************************************************************************)
(* The proleptic Gregorian calendar, as chrono's NaiveDate computes it.    *)
(***************************************************************************)
SecsPerDay == 86400
IsLeap(y) == (y % 4 = 0 /\ y % 100 # 0) \/ y % 400 = 0
DaysInMonth(y, m) ==
    IF m = 2 THEN (IF IsLeap(y) THEN 29 ELSE 28)
    ELSE IF m \in {4, 6, 9, 11} THEN 30 ELSE 31

\* days since 1970-01-01 of the civil date y-m-d
DaysFromCivil(y, m, d) ==
    LET yy == IF m <= 2 THEN y - 1 ELSE y
        era == yy \div 400
        yoe == yy - era * 400
        mp == IF m > 2 THEN m - 3 ELSE m + 9
        doy == (153 * mp + 2) \div 5 + d - 1
        doe == yoe * 365 + yoe \div 4 - yoe \div 100 + doy
    IN  era * 146097 + doe - 719468

\* the civil date of the day z days after 1970-01-01
CivilFromDays(z) ==
    Only({ Only({ Only({ Only({
        [year |-> (yoe + era * 400) + (IF mp < 10 THEN 0 ELSE 1),
         month |-> IF mp < 10 THEN mp + 3 ELSE mp - 9,
         day |-> doy - (153 * mp + 2) \div 5 + 1]
        : mp \in {(5 * doy + 2) \div 153} })
        : doy \in {doe - (365 * yoe + yoe \div 4 - yoe \div 100)} })
        : yoe \in {(doe - doe \div 1460 + doe \div 36524 - doe \div 146096) \div 365} })
        : era \in {(z + 719468) \div 146097}, doe \in {(z + 719468) % 146097} })

\* a calendar date and time of day, `secs` seconds (and nano) after 1970-01-01T00:00:00
DateTimeFromSecs(secs, nano) ==
    Only({ [year |-> c.year, month |-> c.month, day |-> c.day,
            hour |-> (secs % SecsPerDay) \div 3600, minute |-> (secs % 3600) \div 60,
            second |-> secs % 60, nano |-> nano]
           : c \in {CivilFromDays(secs \div SecsPerDay)} })

SecsFromDateTime(dt) ==
    DaysFromCivil(dt.year, dt.month, dt.day) * SecsPerDay
        + dt.hour * 3600 + dt.minute * 60 + dt.second

(***************************************************************************)
(* chrono: format strings (strftime items).                                *)
(***************************************************************************)
NumericSpecs == {"Y", "m", "d", "H", "M", "S", "f"}
FieldOf(c) ==
    CASE c = "Y" -> "year" [] c = "m" -> "month" [] c = "d" -> "day"
      [] c = "H" -> "hour" [] c = "M" -> "minute" [] c = "S" -> "second"
      [] c = "f" -> "nano"
WidthOf(c) == IF c = "Y" THEN 4 ELSE IF c = "f" THEN 9 ELSE 2

RECURSIVE StrftimeItems(_)
\* the items of a format string: "%" and a letter is a specifier, white space a
\* Space item, any other character a literal; an unknown specifier is an Error item
StrftimeItems(fmt) ==
    IF fmt = <<>> THEN <<>>
    ELSE IF Head(fmt) = "%" THEN
        IF Len(fmt) = 1 THEN <<[kind |-> "Error"]>>
        ELSE LET c == fmt[2]
                 item == IF c \in NumericSpecs
                             THEN [kind |-> "Num", field |-> FieldOf(c), width |-> WidthOf(c)]
                         ELSE IF c = "z" THEN [kind |-> "Offset"]
                         ELSE IF c = "%" THEN [kind |-> "Lit", c |-> "%"]
                         ELSE [kind |-> "Error"]
             IN  <<item>> \o StrftimeItems(Drop(fmt, 2))
    ELSE IF IsSpace(Head(fmt)) THEN <<[kind |-> "Space", c |-> Head(fmt)]>> \o StrftimeItems(Tail(fmt))
    ELSE <<[kind |-> "Lit", c |-> Head(fmt)]>> \o StrftimeItems(Tail(fmt))

(***************************************************************************)
(* chrono: rendering a date and time under a format (DelayedFormat).       *)
(***************************************************************************)
\* "+HHMM" (%z) or "+HH:MM" (the Display of a FixedOffset)
OffsetText(off, colon) ==
    LET a == IF off < 0 THEN -off ELSE off
    IN  <<IF off < 0 THEN "-" ELSE "+">> \o PadNum(a \div 3600, 2)
            \o (IF colon THEN <<":">> ELSE <<>>) \o PadNum((a % 3600) \div 60, 2)

YearText(y) ==
    IF y >= 0 /\ y <= 9999 THEN PadNum(y, 4)
    ELSE IF y < 0 THEN <<"-">> \o PadNum(-y, 4) ELSE <<"+">> \o PadNum(y, 4)

ItemText(item, dt, off) ==
    CASE item.kind = "Lit" -> <<item.c>>
      [] item.kind = "Space" -> <<item.c>>
      [] item.kind = "Offset" -> OffsetText(off, FALSE)
      [] item.kind = "Num" ->
            IF item.field = "year" THEN YearText(dt.year)
            ELSE PadNum(dt[item.field], item.width)

RECURSIVE ItemsText(_, _, _)
ItemsText(items, dt, off) ==
    IF items = <<>> THEN <<>>
    ELSE ItemText(Head(items), dt, off) \o ItemsText(Tail(items), dt, off)

HasErrorItem(items) == \E i \in 1..Len(items) : items[i].kind = "Error"

\* the Display of a NaiveDateTime followed by the offset: DateTime<FixedOffset>::to_string
FractionText(nano) ==
    IF nano = 0 THEN <<>>
    ELSE IF nano % 1000000 = 0 THEN <<".">> \o PadNum(nano \div 1000000, 3)
    ELSE IF nano % 1000 = 0 THEN <<".">> \o PadNum(nano \div 1000, 6)
    ELSE <<".">> \o PadNum(nano, 9)

DateTimeDisplay(dt, off) ==
    YearText(dt.year) \o <<"-">> \o PadNum(dt.month, 2) \o <<"-">> \o PadNum(dt.day, 2)
        \o <<" ">> \o PadNum(dt.hour, 2) \o <<":">> \o PadNum(dt.minute, 2)
        \o <<":">> \o PadNum(dt.second, 2) \o FractionText(dt.nano)
        \o <<" ">> \o OffsetText(off, TRUE)

\* the local date and time of a UTC date and time in the offset `off` (seconds east)
WithTimezone(dt, off) == DateTimeFromSecs(SecsFromDateTime(dt) + off, dt.nano)

(***************************************************************************)
(* chrono: scanning (format::scan).                                        *)
(***************************************************************************)
Fail == [ok |-> FALSE]

\* scan::number: between min and max digits
ScanNumber(s, min, max) ==
    Only({ IF n < min THEN Fail
           ELSE [ok |-> TRUE, rest |-> Drop(s, n), val |-> DecValue(Take(s, n))]
           : n \in {DigitRun(s, max)} })

\* scan::nanosecond: a decimal fraction, read to nine places
ScanNanosecond(s) ==
    Only({ IF n < 1 THEN Fail
           ELSE [ok |-> TRUE, rest |-> Drop(s, DigitRun(s, Len(s))),
                 val |-> DecValue(Take(s, n)) * Pow10(9 - n)]
           : n \in {DigitRun(s, 9)} })

RECURSIVE ColonOrSpace(_)
ColonOrSpace(s) ==
    IF s # <<>> /\ (Head(s) = ":" \/ IsSpace(Head(s))) THEN ColonOrSpace(Tail(s)) ELSE s

\* scan::timezone_offset: a sign, two digits of hours, the separator, two digits of
\* minutes below 60; `strictColon` is RFC 3339's exactly-one-colon separator and
\* `zulu` its "Z"
TimezoneOffset(s, strictColon, zulu) ==
    IF s = <<>> THEN Fail
    ELSE IF zulu /\ Head(s) \in {"Z", "z"} THEN [ok |-> TRUE, rest |-> Tail(s), val |-> 0]
    ELSE IF Head(s) \notin {"+", "-"} THEN Fail
    ELSE IF DigitRun(Tail(s), 2) < 2 THEN Fail
    ELSE IF strictColon /\ ~(Len(s) >= 4 /\ s[4] = ":") THEN Fail
    ELSE Only({ IF DigitRun(minutes, 2) < 2 \/ DecValue(Take(minutes, 2)) >= 60 THEN Fail
                ELSE [ok |-> TRUE, rest |-> Drop(minutes, 2),
                      val |-> (IF Head(s) = "-" THEN -1 ELSE 1)
                                * (DecValue(SubSeq(s, 2, 3)) * 3600
                                     + DecValue(Take(minutes, 2)) * 60)]
                : minutes \in {IF strictColon THEN Drop(s, 4) ELSE ColonOrSpace(Drop(s, 3))} })

\* ParseFixedOffset with a fallback to UTC for a text that is no offset
ParseFixedOffsetOrUtc(tz) ==
    Only({ IF ~r.ok \/ r.val <= -SecsPerDay \/ r.val >= SecsPerDay THEN [ok |-> TRUE, val |-> 0]
           ELSE [ok |-> TRUE, val |-> r.val]
           : r \in {TimezoneOffset(tz, FALSE, FALSE)} })

\* <FixedOffset as FromStr>::from_str: the offset text, within a day of UTC
ParseFixedOffset(tz) ==
    Only({ IF ~r.ok THEN Fail
           ELSE IF r.val <= -SecsPerDay \/ r.val >= SecsPerDay THEN Fail
           ELSE [ok |-> TRUE, val |-> r.val]
           : r \in {TimezoneOffset(tz, FALSE, FALSE)} })

(***************************************************************************)
(* chrono: parsing under a format (format::parse) and Parsed::to_datetime. *)
(***************************************************************************)
NoFields == [x \in {} |-> 0]

\* Parsed::set_*: a field set twice must agree
SetField(p, f, v) ==
    IF f \in DOMAIN p THEN (IF p[f] = v THEN [ok |-> TRUE, p |-> p] ELSE Fail)
    ELSE [ok |-> TRUE, p |-> (f :> v) @@ p]

\* a numeric item: leading white space is skipped; a year may carry a sign, and then
\* takes every digit that follows
ParseNumeric(item, s0) ==
    LET s == TrimStart(s0)
    IN  IF item.field = "year" /\ s # <<>> /\ Head(s) \in {"+", "-"} THEN
            Only({ IF ~r.ok THEN Fail
                   ELSE [ok |-> TRUE, rest |-> r.rest,
                         val |-> IF Head(s) = "-" THEN -r.val ELSE r.val]
                   : r \in {ScanNumber(Tail(s), 1, Len(s))} })
        ELSE ScanNumber(s, 1, item.width)

RECURSIVE ParseItems(_, _, _)
\* the fields the items read from s; the whole of s must be used up
ParseItems(items, s, p) ==
    IF items = <<>> THEN (IF s = <<>> THEN [ok |-> TRUE, p |-> p] ELSE Fail)
    ELSE
        LET item == Head(items)
        IN  CASE item.kind = "Lit" ->
                    IF s # <<>> /\ Head(s) = item.c THEN ParseItems(Tail(items), Tail(s), p)
                    ELSE Fail
              [] item.kind = "Space" -> ParseItems(Tail(items), TrimStart(s), p)
              [] item.kind = "Num" ->
                    Only({ IF ~r.ok THEN Fail
                           ELSE Only({ IF ~q.ok THEN Fail
                                       ELSE ParseItems(Tail(items), r.rest, q.p)
                                       : q \in {SetField(p, item.field, r.val)} })
                           : r \in {ParseNumeric(item, s)} })
              [] item.kind = "Offset" ->
                    Only({ IF ~r.ok THEN Fail
                           ELSE Only({ IF ~q.ok THEN Fail
                                       ELSE ParseItems(Tail(items), r.rest, q.p)
                                       : q \in {SetField(p, "offset", r.val)} })
                           : r \in {TimezoneOffset(TrimStart(s), FALSE, FALSE)} })
              [] item.kind = "Error" -> Fail

\* Parsed::to_datetime: a date, a time of day and an offset are all needed; the
\* result is the instant, in seconds and nanoseconds after the epoch
ToDateTime(p) ==
    IF ~({"year", "month", "day", "hour", "minute", "offset"} \subseteq DOMAIN p) THEN Fail
    ELSE IF "nano" \in DOMAIN p /\ "second" \notin DOMAIN p THEN Fail
    ELSE
        LET second == IF "second" \in DOMAIN p THEN p["second"] ELSE 0
            nano == IF "nano" \in DOMAIN p THEN p["nano"] ELSE 0
        IN  IF \/ p["month"] < 1 \/ p["month"] > 12
               \/ p["day"] < 1 \/ p["day"] > DaysInMonth(p["year"], p["month"])
               \/ p["hour"] > 23 \/ p["minute"] > 59 \/ second > 60
            THEN Fail
            ELSE [ok |-> TRUE,
                  secs |-> DaysFromCivil(p["year"], p["month"], p["day"]) * SecsPerDay
                            + p["hour"] * 3600 + p["minute"] * 60 + second - p["offset"],
                  nanos |-> nano]

\* DateTime::parse_from_str
ParseFromStr(s, fmt) ==
    Only({ IF r.ok THEN ToDateTime(r.p) ELSE Fail
           : r \in {ParseItems(StrftimeItems(fmt), s, NoFields)} })

\* the expected literal, then the rest
ScanChar(r, cs) ==
    IF r.ok /\ r.rest # <<>> /\ Head(r.rest) \in cs THEN [r EXCEPT !.rest = Tail(r.rest)]
    ELSE Fail

\* an exactly two-digit (or `n`-digit) field of RFC 3339
ScanFixed(r, f, n) ==
    IF ~r.ok THEN Fail
    ELSE Only({ IF ~x.ok THEN Fail
                ELSE [ok |-> TRUE, rest |-> x.rest, p |-> (f :> x.val) @@ r.p]
                : x \in {ScanNumber(r.rest, n, n)} })

\* the optional fraction of a second of RFC 3339: "." and digits
ScanFraction(r) ==
    IF r.ok /\ r.rest # <<>> /\ Head(r.rest) = "."
        THEN Only({ IF ~x.ok THEN Fail
                    ELSE [ok |-> TRUE, rest |-> x.rest, p |-> ("nano" :> x.val) @@ r.p]
                    : x \in {ScanNanosecond(Tail(r.rest))} })
    ELSE r

\* DateTime::parse_from_rfc3339: YYYY-MM-DDTHH:MM:SS[.fraction](Z|+HH:MM)
ParseFromRfc3339(s) ==
    LET year == ScanFixed([ok |-> TRUE, rest |-> s, p |-> NoFields], "year", 4)
        month == ScanFixed(ScanChar(year, {"-"}), "month", 2)
        day == ScanFixed(ScanChar(month, {"-"}), "day", 2)
        hour == ScanFixed(ScanChar(day, {"T", "t"}), "hour", 2)
        minute == ScanFixed(ScanChar(hour, {":"}), "minute", 2)
        second == ScanFixed(ScanChar(minute, {":"}), "second", 2)
    IN  Only({ IF ~r.ok THEN Fail
               ELSE Only({ IF ~z.ok \/ z.rest # <<>> THEN Fail
                           ELSE IF z.val > 23 * 3600 + 59 * 60 \/ z.val < -(23 * 3600 + 59 * 60)
                               THEN Fail
                           ELSE ToDateTime(("offset" :> z.val) @@ r.p)
                           : z \in {TimezoneOffset(r.rest, TRUE, TRUE)} })
               : r \in {ScanFraction(second)} })

(***************************************************************************)
(* Results, errors and panics.                                             *)
(***************************************************************************)
Ok(v) == [kind |-> "Ok", val |-> v]
Err(e, m) == [kind |-> "Err", err |-> e, msg |-> m]
Panic(m) == [kind |-> "Panic", msg |-> m]
\* a plain return value, of a function that returns no Result
Value(v) == [kind |-> "Value", val |-> v]
IsOk(r) == r.kind = "Ok"
IsErr(r) == r.kind = "Err"
IsPanic(r) == r.kind = "Panic"

\* TimeError::InvalidTime and the three variants that carry a message
InvalidTime == Err("InvalidTime", None)
InvalidTimeFormat(time_str, format) ==
    Err("InvalidTimeFormat", [text |-> "Failed to parse '{}' with format '{}': {}",
                               time_str |-> time_str, format |-> format])
InvalidTimezoneFormat(timezone) == Err("InvalidTimezoneFormat", timezone)
ParseError(prefix, s) == Err("ParseError", [text |-> prefix, s |-> s])

(***************************************************************************)
(* std: Duration and SystemTime (seconds in 64 bits, nanoseconds below     *)
(* 10^9).                                                                  *)
(***************************************************************************)
Duration(secs, nanos) == [secs |-> secs, nanos |-> nanos]

\* SystemTime + Duration: None when the seconds leave the i64 range
SystemTimeCheckedAdd(st, d) ==
    LET carry == IF st.nanos + d.nanos >= NanosPerSec THEN 1 ELSE 0
        secs == BAdd(BAdd(st.secs, d.secs), Small(carry))
    IN  IF InI64(secs) THEN [secs |-> secs, nanos |-> st.nanos + d.nanos - carry * NanosPerSec]
        ELSE None

\* SystemTimeCheckedSub without the borrow from the seconds
SystemTimeCheckedSubNoBorrow(st, d) ==
    LET borrow == IF st.nanos < d.nanos THEN 1 ELSE 0
        secs == BSub(st.secs, d.secs)
    IN  IF InI64(secs) THEN [secs |-> secs, nanos |-> st.nanos - d.nanos + borrow * NanosPerSec]
        ELSE None

\* SystemTime - Duration: None when the seconds leave the i64 range
SystemTimeCheckedSub(st, d) ==
    LET borrow == IF st.nanos < d.nanos THEN 1 ELSE 0
        secs == BSub(BSub(st.secs, d.secs), Small(borrow))
    IN  IF InI64(secs) THEN [secs |-> secs, nanos |-> st.nanos - d.nanos + borrow * NanosPerSec]
        ELSE None

\* SystemTime::duration_since(UNIX_EPOCH): an error for an instant before the epoch
DurationSinceEpoch(st) ==
    IF BLe(BZero, st.secs) THEN Ok(Duration(st.secs, st.nanos)) ELSE Err("SystemTimeError", None)

\* NaiveDateTime::from_timestamp_opt: None beyond chrono's range of years (its last
\* second is 8,210,266,876,799, above every k = 0 value here and below 2^63)
FromTimestampOpt(secs, nanos) ==
    IF secs.k = 0 THEN [kind |-> "Some", dt |-> DateTimeFromSecs(secs.o, nanos)] ELSE None

(***************************************************************************)
(* time_utils::Time                                                        *)
(***************************************************************************)
Time(secs, nanos, cache) == [kind |-> "Time", secs |-> secs, nanos |-> nanos, cache |-> cache]
IsTime(x) == x.kind = "Time"

\* Time::now, the system clock reading `clock`
TimeNow(clock) == Time(Small(clock.secs), clock.nanos, None)

\* GetUtcDatetime giving the cached datetime away: the cache is empty afterwards
GetUtcDatetimeTakingCache(self) ==
    IF self.cache # None THEN [self |-> [self EXCEPT !.cache = None], out |-> Ok(self.cache.dt)]
    ELSE
        LET duration == DurationSinceEpoch(self)
        IN  IF ~IsOk(duration) THEN [self |-> self, out |-> InvalidTime]
            ELSE Only({ IF naive = None THEN [self |-> self, out |-> InvalidTime]
                        ELSE [self |-> [self EXCEPT !.cache = naive], out |-> Ok(naive.dt)]
                        : naive \in {FromTimestampOpt(duration.val.secs, duration.val.nanos)} })

\* Time::get_utc_datetime: [self, out]
GetUtcDatetime(self) ==
    IF self.cache # None THEN [self |-> self, out |-> Ok(self.cache.dt)]
    ELSE
        LET duration == DurationSinceEpoch(self)
        IN  IF ~IsOk(duration) THEN [self |-> self, out |-> InvalidTime]
            ELSE Only({ IF naive = None THEN [self |-> self, out |-> InvalidTime]
                        ELSE [self |-> [self EXCEPT !.cache = naive], out |-> Ok(naive.dt)]
                        : naive \in {FromTimestampOpt(duration.val.secs, duration.val.nanos)} })

\* DelayedFormat's to_string: a format with an unknown specifier makes Display fail,
\* and to_string panics on that
FormatToString(dt, off, format) ==
    LET items == StrftimeItems(format)
    IN  IF HasErrorItem(items)
            THEN Panic("a Display implementation returned an error unexpectedly")
        ELSE Ok(ItemsText(items, dt, off))

\* Time::format: [self, out]
TimeFormat(self, format) ==
    Only({ IF ~IsOk(g.out) THEN g
           ELSE [self |-> g.self, out |-> FormatToString(g.out.val, 0, format)]
           : g \in {GetUtcDatetime(self)} })

\* Time::format_with_timezone: [self, out]
TimeFormatWithTimezone(self, format, timezone) ==
    Only({ IF ~IsOk(g.out) THEN g
           ELSE Only({ IF ~tz.ok THEN [self |-> g.self, out |-> InvalidTimezoneFormat(timezone)]
                       ELSE [self |-> g.self,
                             out |-> FormatToString(WithTimezone(g.out.val, tz.val), tz.val,
                                                    format)]
                       : tz \in {ParseFixedOffset(timezone)} })
           : g \in {GetUtcDatetime(self)} })

\* Time::to_timezone: [self, out]
TimeToTimezone(self, timezone) ==
    Only({ IF ~IsOk(g.out) THEN g
           ELSE Only({ IF ~tz.ok THEN [self |-> g.self, out |-> InvalidTimezoneFormat(timezone)]
                       ELSE [self |-> g.self,
                             out |-> Ok(DateTimeDisplay(WithTimezone(g.out.val, tz.val), tz.val))]
                       : tz \in {ParseFixedOffset(timezone)} })
           : g \in {GetUtcDatetime(self)} })

\* TimeTimestamp with the seconds before the epoch wrapped into a u64
TimeTimestampWrapping(self) ==
    IF BLe(BZero, self.secs) THEN Ok(self.secs) ELSE Ok(BAdd(self.secs, Big(2, 0)))

\* Time::timestamp
TimeTimestamp(self) ==
    LET duration == DurationSinceEpoch(self)
    IN  IF IsOk(duration) THEN Ok(duration.val.secs) ELSE InvalidTime

\* TimeAddDuration with the receiver's cache carried over
TimeAddDurationKeepingCache(self, duration) ==
    LET st == SystemTimeCheckedAdd(self, duration)
    IN  IF st = None THEN Panic("overflow when adding duration to instant")
        ELSE Time(st.secs, st.nanos, self.cache)

\* Time::add_duration: a new Time, or the panic of `+` on overflow
TimeAddDuration(self, duration) ==
    LET st == SystemTimeCheckedAdd(self, duration)
    IN  IF st = None THEN Panic("overflow when adding duration to instant")
        ELSE Time(st.secs, st.nanos, None)

\* Time::sub_duration: a new Time, or the panic of `-` on overflow
TimeSubDuration(self, duration) ==
    LET st == SystemTimeCheckedSub(self, duration)
    IN  IF st = None THEN Panic("overflow when subtracting duration from instant")
        ELSE Time(st.secs, st.nanos, None)

\* #[derive(Clone)] on Time
TimeClone(self) == self

\* Time::from_str(time_str, format)
TimeFromStr(time_str, format) ==
    Only({ IF dt.ok THEN Ok(Time(Small(dt.secs), dt.nanos, None))
           ELSE InvalidTimeFormat(time_str, format)
           : dt \in {ParseFromStr(time_str, format)} })

\* impl fmt::Display for Time, through to_string / println!
FmtYmdHMS == <<"%", "Y", "-", "%", "m", "-", "%", "d", " ", "%", "H", ":", "%", "M", ":", "%", "S">>
InvalidTimeText == <<"I", "n", "v", "a", "l", "i", "d", " ", "T", "i", "m", "e">>
TimeDisplay(self) ==
    LET duration == DurationSinceEpoch(self)
    IN  IF ~IsOk(duration) THEN Ok(InvalidTimeText)
        ELSE Only({ IF naive = None THEN Panic("called Option::unwrap() on a None value")
                    ELSE FormatToString(naive.dt, 0, FmtYmdHMS)
                    : naive \in {FromTimestampOpt(duration.val.secs, duration.val.nanos)} })

\* impl FromStr for Time: the formats it tries, in order
formats_with_tz ==
    << <<"%", "Y", "-", "%", "m", "-", "%", "d", " ", "%", "H", ":", "%", "M", ":", "%", "S", "%", "z">>,
       <<"%", "Y", "-", "%", "m", "-", "%", "d", "T", "%", "H", ":", "%", "M", ":", "%", "S", "%", "z">>,
       <<"%", "Y", "-", "%", "m", "-", "%", "d", " ", "%", "H", ":", "%", "M", ":", "%", "S", ".", "%", "f", "%", "z">>,
       <<"%", "Y", "-", "%", "m", "-", "%", "d", "T", "%", "H", ":", "%", "M", ":", "%", "S", ".", "%", "f", "%", "z">> >>

RECURSIVE FirstParse(_, _, _)
\* the loop `for format in formats`: the first format from index i on that parses s
FirstParse(formats, i, s) ==
    IF i > Len(formats) THEN Fail
    ELSE Only({ IF dt.ok THEN dt ELSE FirstParse(formats, i + 1, s)
                : dt \in {ParseFromStr(s, formats[i])} })

\* TimeFromStrTrait with RFC 3339 tried before the list of formats
TimeFromStrTraitRfcFirst(s) ==
    Only({ IF rfc.ok THEN Ok(Time(Small(rfc.secs), rfc.nanos, None))
           ELSE Only({ IF first.ok THEN Ok(Time(Small(first.secs), first.nanos, None))
                       ELSE ParseError("Invalid time string: ", s)
                       : first \in {FirstParse(formats_with_tz, 1, s)} })
           : rfc \in {ParseFromRfc3339(s)} })

\* <Time as FromStr>::from_str
TimeFromStrTrait(s) ==
    Only({ IF first.ok THEN Ok(Time(Small(first.secs), first.nanos, None))
           ELSE Only({ IF rfc.ok THEN Ok(Time(Small(rfc.secs), rfc.nanos, None))
                       ELSE Only({ IF again.ok
                                       THEN Ok(Time(Small(again.secs), again.nanos, None))
                                   ELSE ParseError("Invalid time string: ", s)
                                   : again \in {FirstParse(formats_with_tz, 1, s)} })
                       : rfc \in {ParseFromRfc3339(s)} })
           : first \in {FirstParse(formats_with_tz, 1, s)} })

(***************************************************************************)
(* time_utils::CustomDuration                                              *)
(***************************************************************************)
\* Duration::from_secs over a u64
DurationFromSecs(secs) == Duration(secs, 0)
\* Duration::from_millis
DurationFromMillis(millis) ==
    Duration(Small(millis \div MillisPerSec), (millis % MillisPerSec) * NanosPerMilli)

\* CustomDuration::from_secs, from_millis
from_secs(secs) == DurationFromSecs(secs)
from_millis(millis) == DurationFromMillis(millis)

\* Duration + Duration: the panic of `+` when the seconds leave the u64 range
DurationAdd(a, b) ==
    LET carry == IF a.nanos + b.nanos >= NanosPerSec THEN 1 ELSE 0
        secs == BAdd(BAdd(a.secs, b.secs), Small(carry))
    IN  IF InU64(secs) THEN Value(Duration(secs, a.nanos + b.nanos - carry * NanosPerSec))
        ELSE Panic("overflow when adding durations")

\* Duration - Duration: the panic of `-` when the result would be negative
DurationSub(a, b) ==
    LET borrow == IF a.nanos < b.nanos THEN 1 ELSE 0
        secs == BSub(BSub(a.secs, b.secs), Small(borrow))
    IN  IF InU64(secs) THEN Value(Duration(secs, a.nanos - b.nanos + borrow * NanosPerSec))
        ELSE Panic("overflow when subtracting durations")

\* Duration * u32: the panic of `*` when the seconds leave the u64 range
DurationMul(a, scalar) ==
    LET total_nanos == a.nanos * scalar
        secs == BAdd(Big(a.secs.k * scalar, a.secs.o * scalar), Small(total_nanos \div NanosPerSec))
    IN  IF InU64(secs) THEN Value(Duration(secs, total_nanos % NanosPerSec))
        ELSE Panic("overflow when multiplying duration by scalar")

\* Duration / u32, for a duration below 2^31 seconds: the panic of `/` on a zero
\* divisor
DurationDiv(a, divisor) ==
    IF divisor = 0 THEN Panic("divide by zero error when dividing duration by scalar")
    ELSE
        LET secs == a.secs.o \div divisor
            carry == a.secs.o - secs * divisor
            extra_nanos == (carry * NanosPerSec) \div divisor
        IN  Value(Duration(Small(secs), a.nanos \div divisor + extra_nanos))

\* CustomDuration::add, sub, mul, div
add(self, other) == DurationAdd(self, other)
sub(self, other) == DurationSub(self, other)
mul(self, scalar) == DurationMul(self, scalar)
div(self, divisor) == DurationDiv(self, divisor)

\* impl Add, Sub, Mul<u32>, Div<u32> for CustomDuration: the operators + - * /
OperatorAdd(self, other) == DurationAdd(self, other)
OperatorSub(self, other) == DurationSub(self, other)
OperatorMul(self, scalar) == DurationMul(self, scalar)
OperatorDiv(self, divisor) == DurationDiv(self, divisor)

\* CustomDuration::as_secs
as_secs(self) == self.secs
\* round_secs rounding to the nearest second
round_secs_nearest(self) ==
    DurationFromSecs(BAdd(self.secs, Small(IF 2 * self.nanos >= NanosPerSec THEN 1 ELSE 0)))
\* CustomDuration::round_secs
round_secs(self) == DurationFromSecs(as_secs(self))
\* CustomDuration::as_millis, as_nanos (u128), for a duration of at most two seconds
as_millis(self) == self.secs.o * MillisPerSec + self.nanos \div NanosPerMilli
as_nanos(self) == self.secs.o * NanosPerSec + self.nanos

(***************************************************************************)
(* humantime: parse_duration and format_duration.                          *)
(***************************************************************************)
IsLetter(c) ==
    c \in {"a", "b", "c", "d", "e", "f", "g", "h", "i", "j", "k", "l", "m", "n", "o", "p",
           "q", "r", "s", "t", "u", "v", "w", "x", "y", "z", "M"}
Units ==
    { [name |-> <<"n", "s">>, secs |-> 0, nanos |-> 1],
       [name |-> <<"u", "s">>, secs |-> 0, nanos |-> 1000],
       [name |-> <<"m", "s">>, secs |-> 0, nanos |-> 1000000],
       [name |-> <<"s">>, secs |-> 1, nanos |-> 0],
       [name |-> <<"s", "e", "c">>, secs |-> 1, nanos |-> 0],
       [name |-> <<"m">>, secs |-> 60, nanos |-> 0],
       [name |-> <<"m", "i", "n">>, secs |-> 60, nanos |-> 0],
       [name |-> <<"h">>, secs |-> 3600, nanos |-> 0],
       [name |-> <<"h", "o", "u", "r">>, secs |-> 3600, nanos |-> 0],
       [name |-> <<"d">>, secs |-> 86400, nanos |-> 0],
       [name |-> <<"d", "a", "y">>, secs |-> 86400, nanos |-> 0],
       [name |-> <<"w">>, secs |-> 604800, nanos |-> 0],
       [name |-> <<"M">>, secs |-> 2630016, nanos |-> 0],
       [name |-> <<"y">>, secs |-> 31557600, nanos |-> 0] }

RECURSIVE LetterRun(_)
LetterRun(s) == IF s = <<>> \/ ~IsLetter(Head(s)) THEN 0 ELSE 1 + LetterRun(Tail(s))

RECURSIVE ParseDurationFrom(_, _)
\* the terms "<number> <unit>" of s added to acc; Fail on anything else
ParseDurationFrom(s0, acc) ==
    LET s == TrimStart(s0)
    IN  IF s = <<>> THEN [ok |-> TRUE, val |-> acc]
        ELSE IF DigitRun(s, Len(s)) = 0 THEN Fail
        ELSE Only({ Only({
                IF rows = {} THEN Fail
                ELSE Only({ ParseDurationFrom(Drop(unit, LetterRun(unit)),
                                Duration(Small(acc.secs.o + v * row.secs
                                                 + (acc.nanos + v * row.nanos) \div NanosPerSec),
                                         (acc.nanos + v * row.nanos) % NanosPerSec))
                            : row \in rows })
                : rows \in {{row \in Units : row.name = Take(unit, LetterRun(unit))}} })
                : v \in {DecValue(Take(s, DigitRun(s, Len(s))))},
                  unit \in {TrimStart(Drop(s, DigitRun(s, Len(s))))} })

\* humantime::parse_duration: an empty string is an error too
ParseDuration(s) ==
    IF TrimStart(s) = <<>> THEN Fail ELSE ParseDurationFrom(s, Duration(BZero, 0))

\* CustomDuration::from_str
CustomDurationFromStr(duration_str) ==
    Only({ IF r.ok THEN Ok(r.val) ELSE ParseError("", duration_str)
           : r \in {ParseDuration(duration_str)} })

\* one item of format_duration: nothing for 0, a separating space after the first
HumanItem(started, name, value, plural) ==
    IF value = 0 THEN <<>>
    ELSE (IF started THEN <<" ">> ELSE <<>>) \o Decimal(value) \o name
            \o (IF plural /\ value > 1 THEN <<"s">> ELSE <<>>)

RECURSIVE HumanItems(_, _)
HumanItems(items, started) ==
    IF items = <<>> THEN <<>>
    ELSE LET x == HumanItem(started, Head(items).name, Head(items).value, Head(items).plural)
         IN  x \o HumanItems(Tail(items), started \/ x # <<>>)

\* humantime::format_duration, for a duration below 2^31 seconds
FormatDuration(d) ==
    LET secs == d.secs.o
        ydays == secs % 31557600
        mdays == ydays % 2630016
        day_secs == mdays % 86400
    IN  IF secs = 0 /\ d.nanos = 0 THEN <<"0", "s">>
        ELSE HumanItems(
            << [name |-> <<"y", "e", "a", "r">>, value |-> secs \div 31557600, plural |-> TRUE],
               [name |-> <<"m", "o", "n", "t", "h">>, value |-> ydays \div 2630016, plural |-> TRUE],
               [name |-> <<"d", "a", "y">>, value |-> mdays \div 86400, plural |-> TRUE],
               [name |-> <<"h">>, value |-> day_secs \div 3600, plural |-> FALSE],
               [name |-> <<"m">>, value |-> (day_secs % 3600) \div 60, plural |-> FALSE],
               [name |-> <<"s">>, value |-> day_secs % 60, plural |-> FALSE],
               [name |-> <<"m", "s">>, value |-> d.nanos \div 1000000, plural |-> FALSE],
               [name |-> <<"u", "s">>, value |-> (d.nanos \div 1000) % 1000, plural |-> FALSE],
               [name |-> <<"n", "s">>, value |-> d.nanos % 1000, plural |-> FALSE] >>, FALSE)

\* CustomDuration::format_human_readable and impl fmt::Display for CustomDuration
format_human_readable(self) == FormatDuration(self)
CustomDurationDisplay(self) == FormatDuration(self)

(***************************************************************************)
(* The inputs the operations are tried on.                                 *)
(***************************************************************************)
\* system clock readings: 2023-10-27T06:30:00.25Z and half an hour after the epoch
NowSet == {[secs |-> 1698388200, nanos |-> 250000000], [secs |-> 1800, nanos |-> 0]}

FmtYmdHMSz == formats_with_tz[1]
FmtSet == {FmtYmdHMS, FmtYmdHMSz}

StrMain == <<"2", "0", "2", "3", "-", "1", "0", "-", "2", "7", " ", "1", "2", ":", "0", "0", ":", "0", "0", "+", "0", "5", ":", "3", "0">>
StrNoOffset == <<"2", "0", "2", "3", "-", "1", "0", "-", "2", "7", " ", "1", "2", ":", "0", "0", ":", "0", "0">>
StrFraction == <<"2", "0", "2", "3", "-", "1", "0", "-", "2", "7", "T", "1", "2", ":", "0", "0", ":", "0", "0", ".", "5", "+", "0", "5", ":", "3", "0">>
StrZulu == <<"2", "0", "2", "3", "-", "1", "0", "-", "2", "7", "T", "1", "2", ":", "0", "0", ":", "0", "0", "Z">>
StrBeforeEpoch == <<"1", "9", "6", "9", "-", "1", "2", "-", "3", "1", " ", "2", "3", ":", "5", "9", ":", "5", "9", "+", "0", "0", "0", "0">>
StrBadDate == <<"2", "0", "2", "3", "-", "0", "2", "-", "3", "0", " ", "1", "2", ":", "0", "0", ":", "0", "0", "+", "0", "0", ":", "0", "0">>
StrGarbage == <<"n", "o", "o", "n">>
StrSet == {StrMain, StrNoOffset, StrFraction, StrZulu, StrBeforeEpoch, StrBadDate, StrGarbage}

TzIst == <<"+", "0", "5", ":", "3", "0">>
TzPst == <<"-", "0", "8", "0", "0">>
TzName == <<"n", "o", "t", "-", "a", "-", "t", "z">>
TzEmpty == <<>>
TzMinutes == <<"+", "0", "5", ":", "6", "0">>
TzNoSign == <<"0", "5", ":", "3", "0">>
GoodTimezones == {TzIst, TzPst}
BadTimezones == {TzName, TzEmpty, TzMinutes, TzNoSign}
TzSet == GoodTimezones \cup BadTimezones

\* CustomDuration values: one hour, a second and a half, 1999 ms, and the largest
\* i64 and u64 counts of seconds
DurSet == {from_secs(Small(3600)), from_millis(1500), from_millis(1999),
           from_secs(I64Max), from_secs(U64Max)}
\* durations below 2^31 seconds, for the operations modelled on those only
SmallDurSet == {d \in DurSet : d.secs.k = 0} \cup {from_secs(Small(3661)), from_secs(BZero)}
\* durations of at most two seconds, whose nanoseconds fit the model's integers
SubSecondSet == {from_millis(999), from_millis(1500), from_millis(1999), from_millis(2000)}
RoundSet == DurSet \cup SmallDurSet \cup SubSecondSet
ScalarSet == {0, 1, 2}
DurStrSet == {<<"1", "h", " ", "3", "0", "m">>, <<"2", "h", "3", "0", "m", "i", "n">>, <<"s", "o", "o", "n">>, <<>>}

(***************************************************************************)
(* The operations, each applied to the Time under test t (or to duration   *)
(* arguments), with its result in ret.  A panic ends the process.          *)
(***************************************************************************)
Alive == ~IsPanic(ret)
HasTime == IsTime(t)

\* let mut t = Time::now();
Now(clock) ==
    /\ Alive
    /\ t' = TimeNow(clock)
    /\ ret' = t'
    /\ op' = [name |-> "now"]
    /\ origin' = "now"
    /\ derived' = 0
    /\ UNCHANGED mainVars

\* let mut t = Time::from_str(time_str, format)?;
FromStr(time_str, format) ==
    /\ Alive
    /\ ret' = TimeFromStr(time_str, format)
    /\ op' = [name |-> "from_str", time_str |-> time_str, format |-> format]
    /\ IF IsOk(ret') THEN t' = ret'.val /\ origin' = op'.name /\ derived' = 0
       ELSE UNCHANGED <<t, origin, derived>>
    /\ UNCHANGED mainVars

\* let mut t: Time = s.parse()?;
FromStrTrait(s) ==
    /\ Alive
    /\ ret' = TimeFromStrTrait(s)
    /\ op' = [name |-> "FromStr::from_str", s |-> s]
    /\ IF IsOk(ret') THEN t' = ret'.val /\ origin' = op'.name /\ derived' = 0
       ELSE UNCHANGED <<t, origin, derived>>
    /\ UNCHANGED mainVars

\* t.format(format)
Format(format) ==
    /\ Alive /\ HasTime
    /\ \E r \in {TimeFormat(t, format)} : t' = r.self /\ ret' = r.out
    /\ op' = [name |-> "format", self |-> t, format |-> format]
    /\ UNCHANGED <<origin, derived>>
    /\ UNCHANGED mainVars

\* t.format_with_timezone(format, timezone)
FormatWithTimezone(format, timezone) ==
    /\ Alive /\ HasTime
    /\ \E r \in {TimeFormatWithTimezone(t, format, timezone)} : t' = r.self /\ ret' = r.out
    /\ op' = [name |-> "format_with_timezone", self |-> t, format |-> format,
              timezone |-> timezone]
    /\ UNCHANGED <<origin, derived>>
    /\ UNCHANGED mainVars

\* t.to_timezone(timezone)
ToTimezone(timezone) ==
    /\ Alive /\ HasTime
    /\ \E r \in {TimeToTimezone(t, timezone)} : t' = r.self /\ ret' = r.out
    /\ op' = [name |-> "to_timezone", self |-> t, timezone |-> timezone]
    /\ UNCHANGED <<origin, derived>>
    /\ UNCHANGED mainVars

\* t.timestamp()
Timestamp ==
    /\ Alive /\ HasTime
    /\ ret' = TimeTimestamp(t)
    /\ op' = [name |-> "timestamp", self |-> t]
    /\ UNCHANGED <<t, origin, derived>>
    /\ UNCHANGED mainVars

\* t.add_duration(&duration)
AddDuration(duration) ==
    /\ Alive /\ HasTime
    /\ ret' = TimeAddDuration(t, duration)
    /\ op' = [name |-> "add_duration", self |-> t, duration |-> duration]
    /\ UNCHANGED <<t, origin, derived>>
    /\ UNCHANGED mainVars

\* t.sub_duration(&duration)
SubDuration(duration) ==
    /\ Alive /\ HasTime
    /\ ret' = TimeSubDuration(t, duration)
    /\ op' = [name |-> "sub_duration", self |-> t, duration |-> duration]
    /\ UNCHANGED <<t, origin, derived>>
    /\ UNCHANGED mainVars

\* t.clone()
Clone ==
    /\ Alive /\ HasTime
    /\ ret' = TimeClone(t)
    /\ op' = [name |-> "clone", self |-> t]
    /\ UNCHANGED <<t, origin, derived>>
    /\ UNCHANGED mainVars

\* t.to_string(), println!("{}", t): impl fmt::Display for Time
Display ==
    /\ Alive /\ HasTime
    /\ ret' = TimeDisplay(t)
    /\ op' = [name |-> "to_string", self |-> t]
    /\ UNCHANGED <<t, origin, derived>>
    /\ UNCHANGED mainVars

\* let mut t = <the Time the last call returned>;
Rebind ==
    /\ Alive /\ IsTime(ret)
    /\ op.name \in {"add_duration", "sub_duration", "clone"}
    /\ derived < MaxDerived
    /\ t' = ret
    /\ origin' = op.name
    /\ derived' = derived + 1
    /\ op' = [name |-> "let"]
    /\ UNCHANGED ret
    /\ UNCHANGED mainVars

\* t.add_duration(&duration).sub_duration(&duration)
AddThenSub(duration) ==
    /\ Alive /\ HasTime
    /\ \E later \in {TimeAddDuration(t, duration)} :
            ret' = IF IsPanic(later) THEN later ELSE TimeSubDuration(later, duration)
    /\ op' = [name |-> "add_duration.sub_duration", self |-> t, duration |-> duration]
    /\ UNCHANGED <<t, origin, derived>>
    /\ UNCHANGED mainVars

\* Time::from_str(&t.format(format)?, format)
FormatThenFromStr(format) ==
    /\ Alive /\ HasTime
    /\ \E r \in {TimeFormat(t, format)} :
            /\ t' = r.self
            /\ ret' = IF IsOk(r.out) THEN TimeFromStr(r.out.val, format) ELSE r.out
    /\ op' = [name |-> "format.from_str", self |-> t, format |-> format]
    /\ UNCHANGED <<origin, derived>>
    /\ UNCHANGED mainVars

\* a.add(&b) and a + b
DurAdd(form, a, b) ==
    /\ Alive
    /\ ret' = IF form = "method" THEN add(a, b) ELSE OperatorAdd(a, b)
    /\ op' = [name |-> "add", form |-> form, self |-> a, other |-> b]
    /\ UNCHANGED <<t, origin, derived>>
    /\ UNCHANGED mainVars

\* a.sub(&b) and a - b
DurSub(form, a, b) ==
    /\ Alive
    /\ ret' = IF form = "method" THEN sub(a, b) ELSE OperatorSub(a, b)
    /\ op' = [name |-> "sub", form |-> form, self |-> a, other |-> b]
    /\ UNCHANGED <<t, origin, derived>>
    /\ UNCHANGED mainVars

\* a.mul(scalar) and a * scalar
DurMul(form, a, scalar) ==
    /\ Alive
    /\ ret' = IF form = "method" THEN mul(a, scalar) ELSE OperatorMul(a, scalar)
    /\ op' = [name |-> "mul", form |-> form, self |-> a, scalar |-> scalar]
    /\ UNCHANGED <<t, origin, derived>>
    /\ UNCHANGED mainVars

\* a.div(divisor) and a / divisor
DurDiv(form, a, divisor) ==
    /\ Alive
    /\ ret' = IF form = "method" THEN div(a, divisor) ELSE OperatorDiv(a, divisor)
    /\ op' = [name |-> "div", form |-> form, self |-> a, divisor |-> divisor]
    /\ UNCHANGED <<t, origin, derived>>
    /\ UNCHANGED mainVars

\* a.round_secs()
RoundSecs(a) ==
    /\ Alive
    /\ ret' = Value(round_secs(a))
    /\ op' = [name |-> "round_secs", self |-> a]
    /\ UNCHANGED <<t, origin, derived>>
    /\ UNCHANGED mainVars

\* CustomDuration::from_str(duration_str)
DurFromStr(duration_str) ==
    /\ Alive
    /\ ret' = CustomDurationFromStr(duration_str)
    /\ op' = [name |-> "CustomDuration::from_str", duration_str |-> duration_str]
    /\ UNCHANGED <<t, origin, derived>>
    /\ UNCHANGED mainVars

Forms == {"method", "operator"}

Init == /\ t = None /\ ret = None /\ op = [name |-> ""] /\ origin = "" /\ derived = 0
        /\ pc = 0 /\ now = None /\ future_time = None /\ past_time = None
        /\ time_from_str = None /\ stdout = <<>> /\ exit = None

(***************************************************************************)
(* main.rs: one step per statement; pc is the line of the next statement.  *)
(* An unwrap of an Err, like any panic, ends the process with status 101.  *)
(***************************************************************************)
\* system clock readings main may start under: days from 1970 to 2027
MainClockSet ==
    {[secs |-> 1698388200, nanos |-> 250000000], [secs |-> 1698391799, nanos |-> 999999999],
     [secs |-> 951782400, nanos |-> 0], [secs |-> 1800000000, nanos |-> 1],
     [secs |-> 86400, nanos |-> 0]}
PanicStatus == 101
OneHour == from_secs(Small(3600))
MainDuration == from_secs(Small(3661))
MainTz == TzIst
MainDurStr == <<"1", "h", " ", "3", "0", "m">>

Running(line) == pc = line /\ exit = None
Println(label, text) == stdout' = Append(stdout, [label |-> label, text |-> text])
Exited(status) == [kind |-> "Exited", status |-> status]
MainPanic == exit' = Exited(PanicStatus) /\ UNCHANGED <<pc, stdout>>
\* println!(label, r.unwrap()) for a Result or a fallible Display r, then line `next`
PrintlnUnwrap(label, r, next) ==
    IF r.kind \in {"Ok", "Value"} THEN Println(label, r.val) /\ pc' = next /\ UNCHANGED exit
    ELSE MainPanic

MainStart ==
    /\ pc = 0 /\ exit = None
    /\ pc' = 5
    /\ UNCHANGED <<now, future_time, past_time, time_from_str, stdout, exit>>
    /\ UNCHANGED apiVars

\* let mut now = Time::now();
Line5(clock) ==
    /\ Running(5)
    /\ now' = TimeNow(clock)
    /\ pc' = 6
    /\ UNCHANGED <<future_time, past_time, time_from_str, stdout, exit>>
    /\ UNCHANGED apiVars

\* println!("Current Time: {}", now);
Line6 ==
    /\ Running(6)
    /\ PrintlnUnwrap("Current Time: ", TimeDisplay(now), 7)
    /\ UNCHANGED <<now, future_time, past_time, time_from_str>>
    /\ UNCHANGED apiVars

\* println!("Formatted Time: {}", now.format("%Y-%m-%d %H:%M:%S").unwrap());
Line7 ==
    /\ Running(7)
    /\ \E r \in {TimeFormat(now, FmtYmdHMS)} :
            now' = r.self /\ PrintlnUnwrap("Formatted Time: ", r.out, 12)
    /\ UNCHANGED <<future_time, past_time, time_from_str>>
    /\ UNCHANGED apiVars

\* println!("Timestamp: {}", now.timestamp().unwrap());
Line12 ==
    /\ Running(12)
    /\ LET r == TimeTimestamp(now)
       IN  PrintlnUnwrap("Timestamp: ", IF IsOk(r) THEN Ok(Decimal(r.val.o)) ELSE r, 15)
    /\ UNCHANGED <<now, future_time, past_time, time_from_str>>
    /\ UNCHANGED apiVars

\* let mut future_time = now.add_duration(&CustomDuration::from_secs(3600));
Line15 ==
    /\ Running(15)
    /\ LET r == TimeAddDuration(now, OneHour)
       IN  IF IsPanic(r) THEN MainPanic /\ UNCHANGED future_time
           ELSE future_time' = r /\ pc' = 16 /\ UNCHANGED <<stdout, exit>>
    /\ UNCHANGED <<now, past_time, time_from_str>>
    /\ UNCHANGED apiVars

\* println!("Time after 1 hour: {}", future_time.format("%Y-%m-%d %H:%M:%S").unwrap());
Line16 ==
    /\ Running(16)
    /\ \E r \in {TimeFormat(future_time, FmtYmdHMS)} :
            future_time' = r.self /\ PrintlnUnwrap("Time after 1 hour: ", r.out, 22)
    /\ UNCHANGED <<now, past_time, time_from_str>>
    /\ UNCHANGED apiVars

\* let mut past_time = now.sub_duration(&CustomDuration::from_secs(3600));
Line22 ==
    /\ Running(22)
    /\ LET r == TimeSubDuration(now, OneHour)
       IN  IF IsPanic(r) THEN MainPanic /\ UNCHANGED past_time
           ELSE past_time' = r /\ pc' = 23 /\ UNCHANGED <<stdout, exit>>
    /\ UNCHANGED <<now, future_time, time_from_str>>
    /\ UNCHANGED apiVars

\* println!("Time before 1 hour: {}", past_time.format("%Y-%m-%d %H:%M:%S").unwrap());
Line23 ==
    /\ Running(23)
    /\ \E r \in {TimeFormat(past_time, FmtYmdHMS)} :
            past_time' = r.self /\ PrintlnUnwrap("Time before 1 hour: ", r.out, 29)
    /\ UNCHANGED <<now, future_time, time_from_str>>
    /\ UNCHANGED apiVars

\* let ist_time = now.to_timezone("+05:30").unwrap(); println!("Time in IST: {}", ist_time);
Line29 ==
    /\ Running(29)
    /\ \E r \in {TimeToTimezone(now, MainTz)} :
            now' = r.self /\ PrintlnUnwrap("Time in IST: ", r.out, 33)
    /\ UNCHANGED <<future_time, past_time, time_from_str>>
    /\ UNCHANGED apiVars

\* let mut time_from_str =
\*     Time::from_str("2023-10-27 12:00:00+05:30", "%Y-%m-%d %H:%M:%S%z").unwrap();
Line33 ==
    /\ Running(33)
    /\ \E r \in {TimeFromStr(StrMain, FmtYmdHMSz)} :
            IF IsOk(r) THEN time_from_str' = r.val /\ pc' = 34 /\ UNCHANGED <<stdout, exit>>
            ELSE MainPanic /\ UNCHANGED time_from_str
    /\ UNCHANGED <<now, future_time, past_time>>
    /\ UNCHANGED apiVars

\* println!("Time from string: {}", time_from_str);
Line34 ==
    /\ Running(34)
    /\ PrintlnUnwrap("Time from string: ", TimeDisplay(time_from_str), 37)
    /\ UNCHANGED <<now, future_time, past_time, time_from_str>>
    /\ UNCHANGED apiVars

\* let duration = CustomDuration::from_secs(3661); println!("Duration: {}", duration);
Line37 ==
    /\ Running(37)
    /\ PrintlnUnwrap("Duration: ", Value(CustomDurationDisplay(MainDuration)), 39)
    /\ UNCHANGED <<now, future_time, past_time, time_from_str>>
    /\ UNCHANGED apiVars

\* println!("Human-readable Duration: {}", duration.format_human_readable());
Line39 ==
    /\ Running(39)
    /\ PrintlnUnwrap("Human-readable Duration: ", Value(format_human_readable(MainDuration)), 44)
    /\ UNCHANGED <<now, future_time, past_time, time_from_str>>
    /\ UNCHANGED apiVars

\* let duration_from_str = CustomDuration::from_str("1h 30m").unwrap();
\* println!("Duration from str: {}", duration_from_str.format_human_readable());
Line44 ==
    /\ Running(44)
    /\ \E r \in {CustomDurationFromStr(MainDurStr)} :
            IF IsOk(r)
                THEN PrintlnUnwrap("Duration from str: ", Value(format_human_readable(r.val)), 49)
            ELSE MainPanic
    /\ UNCHANGED <<now, future_time, past_time, time_from_str>>
    /\ UNCHANGED apiVars

\* let x = duration <operator> <operand>; println!(label, x.format_human_readable());
PrintlnDuration(label, r, next) ==
    IF IsPanic(r) THEN MainPanic
    ELSE PrintlnUnwrap(label, Value(format_human_readable(r.val)), next)

\* let duration_add = duration + CustomDuration::from_secs(60); println!(...);
Line49 ==
    /\ Running(49)
    /\ PrintlnDuration("Duration add: ", OperatorAdd(MainDuration, from_secs(Small(60))), 51)
    /\ UNCHANGED <<now, future_time, past_time, time_from_str>>
    /\ UNCHANGED apiVars

\* let duration_sub = duration - CustomDuration::from_secs(60); println!(...);
Line51 ==
    /\ Running(51)
    /\ PrintlnDuration("Duration sub: ", OperatorSub(MainDuration, from_secs(Small(60))), 53)
    /\ UNCHANGED <<now, future_time, past_time, time_from_str>>
    /\ UNCHANGED apiVars

\* let duration_mul = duration * 2; println!(...);
Line53 ==
    /\ Running(53)
    /\ PrintlnDuration("Duration mul: ", OperatorMul(MainDuration, 2), 56)
    /\ UNCHANGED <<now, future_time, past_time, time_from_str>>
    /\ UNCHANGED apiVars

\* let duration_div = duration / 2; println!(...);
Line56 ==
    /\ Running(56)
    /\ PrintlnDuration("Duration div: ", OperatorDiv(MainDuration, 2), 59)
    /\ UNCHANGED <<now, future_time, past_time, time_from_str>>
    /\ UNCHANGED apiVars

\* println!("Duration in seconds: {}", duration.as_secs());
Line59 ==
    /\ Running(59)
    /\ PrintlnUnwrap("Duration in seconds: ", Value(Decimal(as_secs(MainDuration).o)), 60)
    /\ UNCHANGED <<now, future_time, past_time, time_from_str>>
    /\ UNCHANGED apiVars

\* let time_from_trait = Time::from_str("2023-10-27 12:00:00", "%Y-%m-%d %H:%M:%S").unwrap();
\* println!("Time from trait: {}", time_from_trait);  and main returns: status 0
Line60 ==
    /\ Running(60)
    /\ \E r \in {TimeFromStr(StrNoOffset, FmtYmdHMS)} :
            IF ~IsOk(r) THEN MainPanic
            ELSE \E shown \in {TimeDisplay(r.val)} :
                    IF IsPanic(shown) THEN MainPanic
                    ELSE Println("Time from trait: ", shown.val) /\ pc' = 62 /\ exit' = Exited(0)
    /\ UNCHANGED <<now, future_time, past_time, time_from_str>>
    /\ UNCHANGED apiVars

MainNext ==
    \/ MainStart
    \/ \E clock \in MainClockSet : Line5(clock)
    \/ Line6 \/ Line7 \/ Line12 \/ Line15 \/ Line16 \/ Line22 \/ Line23 \/ Line29
    \/ Line33 \/ Line34 \/ Line37 \/ Line39 \/ Line44 \/ Line49 \/ Line51 \/ Line53
    \/ Line56 \/ Line59 \/ Line60

MainSpec == Init /\ [][MainNext]_vars

\* the operations of Time
Next ==
    \/ \E clock \in NowSet : Now(clock)
    \/ \E time_str \in StrSet, format \in FmtSet : FromStr(time_str, format)
    \/ \E str \in StrSet : FromStrTrait(str)
    \/ \E format \in FmtSet : Format(format)
    \/ \E format \in FmtSet, timezone \in TzSet : FormatWithTimezone(format, timezone)
    \/ \E timezone \in TzSet : ToTimezone(timezone)
    \/ Timestamp
    \/ \E duration \in DurSet : AddDuration(duration)
    \/ \E duration \in DurSet : SubDuration(duration)
    \/ Clone
    \/ Display
    \/ Rebind
    \/ \E duration \in DurSet : AddThenSub(duration)
    \/ \E format \in FmtSet : FormatThenFromStr(format)

Spec == Init /\ [][Next]_vars

\* the operations of CustomDuration
DurationNext ==
    \/ \E form \in Forms, a \in DurSet, b \in DurSet : DurAdd(form, a, b)
    \/ \E form \in Forms, a \in DurSet, b \in DurSet : DurSub(form, a, b)
    \/ \E form \in Forms, a \in DurSet, scalar \in ScalarSet : DurMul(form, a, scalar)
    \/ \E form \in Forms, a \in SmallDurSet, divisor \in ScalarSet : DurDiv(form, a, divisor)
    \/ \E a \in RoundSet : RoundSecs(a)
    \/ \E duration_str \in DurStrSet : DurFromStr(duration_str)

DurationSpec == Init /\ [][DurationNext]_vars

(***************************************************************************)
(* The claims.                                                             *)
(***************************************************************************)
AtOrAfterEpoch(x) == BLe(BZero, x.secs)
BeforeEpoch(x) == BLt(x.secs, BZero)
DurLt(a, b) == BLt(a.secs, b.secs) \/ (a.secs = b.secs /\ a.nanos < b.nanos)
IsError(r, e) == IsErr(r) /\ r.err = e

\* the cache of x is absent, or it is the UTC date and time of x's timestamp
CacheAgrees(x) ==
    \/ x.cache = None
    \/ /\ x.cache.kind = "Some"
       /\ x.secs.k = 0 /\ x.secs.o >= 0
       /\ SecsFromDateTime(x.cache.dt) = x.secs.o
       /\ x.cache.dt.nano = x.nanos
       /\ x.cache.dt = DateTimeFromSecs(x.secs.o, x.nanos)

\* C1: in every reachable state the cached UTC datetime of a Time (the value under
\* test, and every Time an operation returns) is absent or is the UTC calendar
\* datetime of that value's timestamp, and a Time returned by add_duration or
\* sub_duration has an absent cache.
C1_CacheIsOfTimestamp ==
    /\ IsTime(t) => CacheAgrees(t)
    /\ IsTime(ret) => CacheAgrees(ret)
    /\ (IsOk(ret) /\ op.name \in {"from_str", "FromStr::from_str", "format.from_str"})
            => CacheAgrees(ret.val)
    /\ (IsTime(ret) /\ op.name \in {"add_duration", "sub_duration", "add_duration.sub_duration"})
            => ret.cache = None

\* add_duration on a receiver whose cache is filled has returned a Time
C1_Witness ==
    /\ op.name = "add_duration" /\ op.self.cache # None /\ t.cache # None
    /\ IsTime(ret) /\ ret.cache = None /\ ret.secs # t.secs

\* C2 (as claimed): dividing a CustomDuration by zero, by div or by /, yields a
\* DivisionByZero error value and no panic.
C2_DivisionByZeroIsAnError ==
    (op.name = "div" /\ op.divisor = 0) => IsError(ret, "DivisionByZero")

\* C3 (as claimed): a.sub(b) and a - b with b greater than a yield an error value:
\* no panic, no saturated, wrapped or negative duration.
C3_SubUnderflowIsAnError ==
    (op.name = "sub" /\ DurLt(op.self, op.other)) => IsErr(ret)

\* a Time whose UTC datetime get_utc_datetime can produce
Renderable(x) == x.cache # None \/ (AtOrAfterEpoch(x) /\ x.secs.k = 0)

\* C4 (as claimed): format_with_timezone and to_timezone with a timezone string that
\* is no fixed offset return InvalidTimezoneFormat carrying that string, whatever the
\* Time.
C4_BadTimezoneIsInvalidTimezoneFormat ==
    (op.name \in {"format_with_timezone", "to_timezone"} /\ op.timezone \in BadTimezones)
        => (IsError(ret, "InvalidTimezoneFormat") /\ ret.msg = op.timezone)

\* C4 (amended): with a timezone string that is no fixed offset, format_with_timezone
\* and to_timezone return InvalidTimezoneFormat carrying that string when the Time
\* has a UTC datetime (it is at or after the epoch and within the calendar's range),
\* and InvalidTime when it has none; they never return a rendered string.
C4_BadTimezoneIsAnError ==
    (op.name \in {"format_with_timezone", "to_timezone"} /\ op.timezone \in BadTimezones)
        => IF Renderable(op.self)
               THEN IsError(ret, "InvalidTimezoneFormat") /\ ret.msg = op.timezone
           ELSE IsError(ret, "InvalidTime")

\* to_timezone with a bad timezone string on a Time whose cache is filled
C4_Witness ==
    /\ op.name = "to_timezone" /\ op.timezone = TzName /\ op.self.cache # None
    /\ IsError(ret, "InvalidTimezoneFormat") /\ ret.msg = TzName

\* the duration d is longer than the time from the epoch to x
Exceeds(d, x) == BeforeEpoch(x) \/ DurLt(Duration(x.secs, x.nanos), d)
\* the seconds of x - d, as an integer
SecsOfDifference(x, d) ==
    BSub(BSub(x.secs, d.secs), Small(IF x.nanos < d.nanos THEN 1 ELSE 0))
\* the seconds of x + d, as an integer
SecsOfSum(x, d) ==
    BAdd(BAdd(x.secs, d.secs), Small(IF x.nanos + d.nanos >= NanosPerSec THEN 1 ELSE 0))

\* C5 (as claimed): sub_duration of a duration longer than the time since the epoch
\* returns a Time before the epoch.
C5_SubDurationReturnsATimeBeforeEpoch ==
    (op.name = "sub_duration" /\ Exceeds(op.duration, op.self))
        => (IsTime(ret) /\ BeforeEpoch(ret))

\* C5 (amended): sub_duration of a duration longer than the time since the epoch
\* returns a Time before the epoch when the difference is within the i64 seconds of
\* the platform's time, and panics when it is not; timestamp() and format on a Time
\* that sub_duration returned before the epoch fail with InvalidTime.
C5_BeforeEpochIsInvalidTime ==
    /\ (op.name = "sub_duration" /\ Exceeds(op.duration, op.self))
            => IF InI64(SecsOfDifference(op.self, op.duration))
                   THEN IsTime(ret) /\ BeforeEpoch(ret)
               ELSE IsPanic(ret)
    /\ (op.name \in {"timestamp", "format"} /\ origin = "sub_duration" /\ BeforeEpoch(op.self))
            => IsError(ret, "InvalidTime")

\* timestamp() has been called on the Time before the epoch that sub_duration returned
C5_Witness ==
    /\ op.name = "timestamp" /\ origin = "sub_duration" /\ BeforeEpoch(op.self)
    /\ IsError(ret, "InvalidTime")

C7_MainExitsZero == exit # None => exit = Exited(0)

\* C8 (as claimed): for the format "%Y-%m-%d %H:%M:%S" and a Time t at or after the
\* epoch, Time::from_str(t.format(F), F) succeeds with the timestamp() of t.
C8_FormatThenFromStrRoundTrip ==
    (op.name = "format.from_str" /\ op.format = FmtYmdHMS /\ AtOrAfterEpoch(op.self))
        => (IsOk(ret) /\ TimeTimestamp(ret.val) = TimeTimestamp(op.self))

\* C9 (as claimed): t.add_duration(d).sub_duration(d) is a Time with the epoch
\* seconds of t, for every t and d.
C9_AddThenSubReturns ==
    op.name = "add_duration.sub_duration"
        => (IsTime(ret) /\ TimeTimestamp(ret) = TimeTimestamp(op.self))

\* C9 (amended): for every t and d whose sum is within the i64 seconds of the
\* platform's time, t.add_duration(d).sub_duration(d) has the epoch seconds of t
\* (timestamp() returns the same result); for any other d add_duration panics; t is
\* unchanged either way.
C9_AddThenSubIsExact ==
    op.name = "add_duration.sub_duration" =>
        /\ t = op.self
        /\ IF InI64(SecsOfSum(op.self, op.duration))
               THEN /\ IsTime(ret)
                    /\ ret.secs = op.self.secs
                    /\ TimeTimestamp(ret) = TimeTimestamp(op.self)
           ELSE IsPanic(ret)

\* the round trip where the addition carries into the seconds and the subtraction
\* borrows from them
C9_Witness ==
    /\ op.name = "add_duration.sub_duration" /\ IsTime(ret)
    /\ op.self.nanos + op.duration.nanos >= NanosPerSec
    /\ IsOk(TimeTimestamp(ret)) /\ TimeTimestamp(ret) = TimeTimestamp(t)

C11_DisplayHasNoSentinel ==
    op.name = "to_string" =>
        /\ ~IsPanic(ret)
        /\ BeforeEpoch(op.self) => (~IsOk(ret) /\ IsError(ret, "InvalidTime"))

\* C12: a call of format, format_with_timezone or to_timezone, successful or failing,
\* leaves the timestamp of the Time as it was (timestamp() returns the same result
\* before and after); a cache that is present stays as it is, a cache that is absent
\* stays absent or becomes the UTC datetime of the timestamp, and after a call that
\* failed with InvalidTime the cache is absent.
C12_FormatChangesOnlyTheCache ==
    [][op'.name \in {"format", "format_with_timezone", "to_timezone"} =>
          /\ IsTime(t) /\ IsTime(t')
          /\ t'.secs = t.secs /\ t'.nanos = t.nanos
          /\ TimeTimestamp(t') = TimeTimestamp(t)
          /\ t.cache # None => t'.cache = t.cache
          /\ t'.cache # None => t'.cache = FromTimestampOpt(t.secs, t.nanos)
          /\ IsError(ret', "InvalidTime") => (t.cache = None /\ t'.cache = None)]_vars

\* a call that failed on its timezone string has filled the cache and nothing else
C12_Witness ==
    /\ op.name = "format_with_timezone" /\ IsError(ret, "InvalidTimezoneFormat")
    /\ op.self.cache = None /\ t.cache # None
    /\ t.secs = op.self.secs /\ t.nanos = op.self.nanos
====
